---- MODULE Spec2Model ----
(***************************************************************************)
(* A model of main.go: the hierarchical statistics tree (Statistic.Inc,    *)
(* Statistic.Json), the rule compiler and its validators, and the request  *)
(* handlers that tie them together.                                        *)
(*                                                                         *)
(* A Go string is a sequence of tokens; the token "." is the separator of  *)
(* strings.Split and every other token is a dot-free piece of text.  A     *)
(* path segment (a key of the tree) is the sequence of tokens between two  *)
(* separators, and a position in the tree is a sequence of segments.       *)
(***************************************************************************)
EXTENDS Integers, Sequences, FiniteSets, TLC

\* ------------------------------------------------------------ bounds
NumProcs == 2
MaxCalls == 3

Procs == 1..NumProcs
NoProc == 0

Dot == "."

\* ------------------------------------------------------------ strings
RECURSIVE SplitAcc(_, _, _)
SplitAcc(s, done, seg) ==
    IF s = <<>> THEN Append(done, seg)
    ELSE IF Head(s) = Dot
         THEN SplitAcc(Tail(s), Append(done, seg), <<>>)
         ELSE SplitAcc(Tail(s), done, Append(seg, Head(s)))

\* strings.Split(path, "."): always at least one segment, "" gives [""]
Split(s) == SplitAcc(s, <<>>, <<>>)

\* fmt.Sprintf("%s.<name>", uri)
Sprintf(uri, name) == uri \o <<Dot>> \o name

\* ------------------------------------------------------------ the tree
\* s.data: a position of the tree is bound to a leaf int or to an interior map
Leaf(n) == [kind |-> "leaf", val |-> n]
Node == [kind |-> "node", val |-> 0]
EmptyTree == [q \in {} |-> Node]

Has(t, q) == q \in DOMAIN t
IsLeaf(t, q) == Has(t, q) /\ t[q].kind = "leaf"
IsNode(t, q) == Has(t, q) /\ t[q].kind = "node"
Put(t, q, v) == [x \in DOMAIN t \cup {q} |-> IF x = q THEN v ELSE t[x]]

\* the value of cur[key] as line 404 and line 418 read it
Absent == [kind |-> "absent", val |-> 0]
Lookup(t, q) == IF Has(t, q) THEN t[q] ELSE Absent

VARIABLES
    data,      \* s.data as a map from positions to Leaf(n) or Node
    dataNil,   \* s.data == nil
    mutex,     \* s.mutex: the process holding it, or NoProc
    pc,        \* per process: where it is inside Inc
    frame,     \* per process: the locals of its Inc call
    res,       \* per process: what its last Inc returned
    calls,     \* per process: Inc calls started
    snap,      \* what the last Json call serialized
    pre,       \* per process: the tree when its Inc took the lock
    sumOk,     \* per position: sum of the deltas of the Inc calls that returned nil
    nOk,       \* per position: number of the Inc calls that returned nil
    nFail,     \* number of Inc calls that returned an error
    varg,      \* the Arg of the configuration that main compiles
    vgen,      \* validFuncs[arg.Name] and err after line 42
    vrun,      \* the process: "startup", "serving", or "crashed" by a panic
    vval,      \* the value of the field in the last request body
    vout,      \* where the handler put the field for that request
    conf,      \* the endpoint that main registered: method, args, validFuncs
    handler,   \* per process: where it is inside a handler, and its locals
    resp,      \* per process: the last response written
    nRecv,     \* per request URI: requests that entered a handler
    nCode0     \* per request URI: responses written with code 0

statVars == <<data, dataNil, mutex, pc, frame, res, calls, snap, pre, sumOk, nOk, nFail>>
validVars == <<varg, vgen, vrun, vval, vout>>
handlerVars == <<conf, handler, resp, nRecv, nCode0>>
vars == <<statVars, validVars, handlerVars>>

NoFrame == [parts |-> <<>>, delta |-> 0, k |-> 0, cur |-> <<>>, i |-> Absent, value |-> 0]
NoSnap == [taken |-> FALSE, nil |-> TRUE, tree |-> EmptyTree]
NoPre == [nil |-> TRUE, tree |-> EmptyTree]

Count(f, q) == IF q \in DOMAIN f THEN f[q] ELSE 0
AddTo(f, q, n) == [x \in DOMAIN f \cup {q} |-> IF x = q THEN Count(f, q) + n ELSE f[x]]

Sum(f) == LET RECURSIVE S(_)
              S(D) == IF D = {} THEN 0
                      ELSE LET x == CHOOSE y \in D : TRUE IN f[x] + S(D \ {x})
          IN S(DOMAIN f)

StatInit ==
    /\ data = EmptyTree
    /\ dataNil = TRUE
    /\ mutex = NoProc
    /\ pc = [p \in Procs |-> "idle"]
    /\ frame = [p \in Procs |-> NoFrame]
    /\ res = [p \in Procs |-> "none"]
    /\ calls = [p \in Procs |-> 0]
    /\ snap = NoSnap
    /\ pre = [p \in Procs |-> NoPre]
    /\ sumOk = EmptyTree
    /\ nOk = EmptyTree
    /\ nFail = 0

\* sync.Mutex.Lock returns only when nobody holds the mutex
CanLock_NoExclusion(m) == TRUE
CanLock(m) == m = NoProc

\* pathParts := parts[:len(parts)-1]; valueName := parts[len(parts)-1]
PathParts(parts) == SubSeq(parts, 1, Len(parts) - 1)
ValueName(parts) == parts[Len(parts)]

\* Inc is entered: the caller has evaluated path and delta
IncEnter(p, path, delta) ==
    /\ pc[p] = "idle"
    /\ pc' = [pc EXCEPT ![p] = "lock"]
    /\ frame' = [frame EXCEPT ![p] = [NoFrame EXCEPT !.parts = Split(path), !.delta = delta]]
    /\ res' = [res EXCEPT ![p] = "none"]
    /\ calls' = [calls EXCEPT ![p] = @ + 1]
    /\ UNCHANGED <<data, dataNil, mutex, snap, pre, sumOk, nOk, nFail>>

\* lines 386-400: take the lock, make the root map, cur := s.data
IncLock(p) ==
    /\ pc[p] = "lock"
    /\ CanLock(mutex)
    /\ mutex' = p
    /\ dataNil' = FALSE
    /\ pre' = [pre EXCEPT ![p] = [nil |-> dataNil, tree |-> data]]
    /\ pc' = [pc EXCEPT ![p] = IF PathParts(frame[p].parts) = <<>> THEN "read" ELSE "loop"]
    /\ UNCHANGED <<data, frame, res, calls, snap, sumOk, nOk, nFail>>

\* the deferred s.mutex.Unlock() of a returning Inc
Unlock(p) == mutex' = IF mutex = p THEN NoProc ELSE mutex

\* return fmt.Errorf(...) at line 412 or line 424
IncFail(p) ==
    /\ pc' = [pc EXCEPT ![p] = "idle"]
    /\ res' = [res EXCEPT ![p] = "err"]
    /\ frame' = [frame EXCEPT ![p] = NoFrame]
    /\ pre' = [pre EXCEPT ![p] = NoPre]
    /\ nFail' = nFail + 1
    /\ Unlock(p)
    /\ UNCHANGED <<data, dataNil, calls, snap, sumOk, nOk>>

\* lines 404-414: what one iteration does with i, ok := cur[part]
LoopCase_Replace(i) == IF i.kind = "node" THEN "descend" ELSE "create"
LoopCase(i) ==
    IF i.kind = "absent" THEN "create"
    ELSE IF i.kind # "node" THEN "fail"
    ELSE "descend"

\* lines 401-416: one iteration of the loop over pathParts
IncLoop(p) ==
    /\ pc[p] = "loop"
    /\ LET f == frame[p]
           part == PathParts(f.parts)[f.k + 1]
           q == Append(f.cur, part)
           i == Lookup(data, q)
           last == f.k + 1 = Len(PathParts(f.parts))
       IN  IF LoopCase(i) = "create"
           THEN /\ data' = Put(data, q, Node)
                /\ frame' = [frame EXCEPT ![p].cur = q, ![p].k = f.k + 1]
                /\ pc' = [pc EXCEPT ![p] = IF last THEN "read" ELSE "loop"]
                /\ UNCHANGED <<dataNil, mutex, res, calls, snap, pre, sumOk, nOk, nFail>>
           ELSE IF LoopCase(i) = "fail"
           THEN IncFail(p)
           ELSE /\ frame' = [frame EXCEPT ![p].cur = q, ![p].k = f.k + 1]
                /\ pc' = [pc EXCEPT ![p] = IF last THEN "read" ELSE "loop"]
                /\ UNCHANGED <<data, dataNil, mutex, res, calls, snap, pre, sumOk, nOk, nFail>>

\* lines 419-427: the new value of the leaf, or the error of line 424
FinalValue_NoAdd(i, delta) ==
    IF i.kind = "node" THEN [ok |-> FALSE, value |-> 0]
    ELSE [ok |-> TRUE, value |-> delta]
FinalValue_Overwrite(i, delta) ==
    IF i.kind = "leaf" THEN [ok |-> TRUE, value |-> i.val + delta]
    ELSE [ok |-> TRUE, value |-> delta]
FinalValue(i, delta) ==
    IF i.kind = "absent" THEN [ok |-> TRUE, value |-> delta]
    ELSE IF i.kind # "leaf" THEN [ok |-> FALSE, value |-> 0]
    ELSE [ok |-> TRUE, value |-> i.val + delta]

\* lines 418-427: i := cur[valueName] and the computation of value
IncRead(p) ==
    /\ pc[p] = "read"
    /\ LET f == frame[p]
           i == Lookup(data, Append(f.cur, ValueName(f.parts)))
           r == FinalValue(i, f.delta)
       IN  IF r.ok
           THEN /\ frame' = [frame EXCEPT ![p].i = i, ![p].value = r.value]
                /\ pc' = [pc EXCEPT ![p] = "write"]
                /\ UNCHANGED <<data, dataNil, mutex, res, calls, snap, pre, sumOk, nOk, nFail>>
           ELSE IncFail(p)

\* lines 428-431: cur[valueName] = value; return nil
IncWrite(p) ==
    /\ pc[p] = "write"
    /\ LET f == frame[p]
           q == Append(f.cur, ValueName(f.parts))
       IN  /\ data' = Put(data, q, Leaf(f.value))
           /\ sumOk' = AddTo(sumOk, q, f.delta)
           /\ nOk' = AddTo(nOk, q, 1)
    /\ pc' = [pc EXCEPT ![p] = "idle"]
    /\ res' = [res EXCEPT ![p] = "ok"]
    /\ frame' = [frame EXCEPT ![p] = NoFrame]
    /\ pre' = [pre EXCEPT ![p] = NoPre]
    /\ Unlock(p)
    /\ UNCHANGED <<dataNil, calls, snap, nFail>>

\* lines 434-443: Json serializes s.data under the lock
Json(p) ==
    /\ pc[p] = "idle"
    /\ CanLock(mutex)
    /\ snap' = [taken |-> TRUE, nil |-> dataNil, tree |-> data]
    /\ UNCHANGED <<data, dataNil, mutex, pc, frame, res, calls, pre, sumOk, nOk, nFail>>

\* ------------------------------------------------------------ JSON values
\* A value decoded with UseNumber.  A number is the json.Number literal: an
\* integer literal that fits int64 (form "int", n its value), an integer literal
\* beyond int64 (form "big", n its sign), or a literal with a fraction or an
\* exponent (form "frac", n its integer part).  A string is a sequence of
\* characters.
Val(t, form, n, s) == [t |-> t, form |-> form, n |-> n, s |-> s]
VNull == Val("null", "", 0, <<>>)
VBool(b) == Val("bool", "", IF b THEN 1 ELSE 0, <<>>)
VInt(n) == Val("number", "int", n, <<>>)
VFrac(n) == Val("number", "frac", n, <<>>)
VBig(sign) == Val("number", "big", sign, <<>>)
VStr(s) == Val("string", "", 0, s)
VObject == Val("object", "", 0, <<>>)
\* a key that the map does not have
NoKey == Val("absent", "", 0, <<>>)

\* json.Number.Int64: strconv.ParseInt(literal, 10, 64)
Int64(v) == IF v.form = "int" THEN [err |-> FALSE, i |-> v.n] ELSE [err |-> TRUE, i |-> 0]

\* the bytes of the UTF-8 encoding of a character
Utf8Width(c) == IF c = "U+00E9" THEN 2 ELSE 1

\* len(s) of a Go string: its length in bytes
RECURSIVE GoLen(_)
GoLen(s) == IF s = <<>> THEN 0 ELSE Utf8Width(Head(s)) + GoLen(Tail(s))

\* ------------------------------------------------------------ the rule compiler
TypeInt == 1
TypeString == 2
TypeBool == 3

\* what a generate... function returns: a closure, (nil, nil), (nil, err), or a panic
Func(kind, minV, maxV) == [st |-> "func", kind |-> kind, minV |-> minV, maxV |-> maxV]
NilFunc == [st |-> "nil", kind |-> "", minV |-> 0, maxV |-> 0]
CompileErr == [st |-> "err", kind |-> "", minV |-> 0, maxV |-> 0]
Panic == [st |-> "panic", kind |-> "", minV |-> 0, maxV |-> 0]

\* a restriction value: JSON null, an object with optional "min" and "max", or another value
RNull == [t |-> "null", min |-> NoKey, max |-> NoKey]
RMap(min, max) == [t |-> "map", min |-> min, max |-> max]
ROther == [t |-> "other", min |-> NoKey, max |-> NoKey]

\* lines 278-328
generateStringLengthValidFunc(restriction) ==
    IF restriction.t = "null" THEN NilFunc
    ELSE IF restriction.t # "map" THEN Panic
    ELSE LET max == restriction.max
             min == restriction.min
             maxExisted == max.t # "absent"
             minExisted == min.t # "absent"
         IN  IF maxExisted /\ minExisted
             THEN IF max.t # "number" THEN Panic
                  ELSE IF Int64(max).err THEN CompileErr
                  ELSE IF min.t # "number" THEN Panic
                  ELSE IF Int64(min).err THEN CompileErr
                  ELSE Func("minmax", Int64(min).i, Int64(max).i)
             ELSE IF maxExisted
             THEN IF max.t # "number" THEN Panic
                  ELSE IF Int64(max).err THEN CompileErr
                  ELSE Func("max", 0, Int64(max).i)
             ELSE IF minExisted
             THEN IF min.t # "number" THEN Panic
                  ELSE IF Int64(min).err THEN CompileErr
                  ELSE Func("min", Int64(min).i, 0)
             ELSE NilFunc

\* lines 331-378
generateIntRangeValidFunc(restriction) ==
    IF restriction.t = "null" THEN NilFunc
    ELSE IF restriction.t # "map" THEN Panic
    ELSE LET max == restriction.max
             min == restriction.min
             maxExisted == max.t # "absent"
             minExisted == min.t # "absent"
         IN  IF maxExisted /\ minExisted
             THEN IF max.t # "number" THEN Panic
                  ELSE IF Int64(max).err THEN CompileErr
                  ELSE IF min.t # "number" THEN Panic
                  ELSE IF Int64(min).err THEN CompileErr
                  ELSE Func("minmax", Int64(min).i, Int64(max).i)
             ELSE IF maxExisted
             THEN IF max.t # "number" THEN Panic
                  ELSE IF Int64(max).err THEN CompileErr
                  ELSE Func("max", 0, Int64(max).i)
             ELSE IF minExisted
             THEN IF min.t # "number" THEN Panic
                  ELSE IF Int64(min).err THEN CompileErr
                  ELSE Func("min", Int64(min).i, 0)
             ELSE NilFunc

\* an outcome of a check: nil, or an error with its text
Pass == [err |-> FALSE, reason |-> ""]
Fail(reason) == [err |-> TRUE, reason |-> reason]

\* the closures of lines 347-355, 360-365 and 370-375, applied to n
BoundCheck_Exclusive(fn, n) ==
    IF fn.kind \in {"minmax", "min"} /\ n <= fn.minV THEN Fail("min")
    ELSE IF fn.kind \in {"minmax", "max"} /\ n >= fn.maxV THEN Fail("max")
    ELSE Pass
BoundCheck(fn, n) ==
    IF fn.kind \in {"minmax", "min"} /\ n < fn.minV THEN Fail("min")
    ELSE IF fn.kind \in {"minmax", "max"} /\ n > fn.maxV THEN Fail("max")
    ELSE Pass

\* the closures of lines 294-303, 308-314 and 319-325: l := int64(len(s))
LengthCheck(fn, s) ==
    LET l == GoLen(s)
    IN  IF fn.kind \in {"minmax", "min"} /\ l < fn.minV THEN Fail("min")
        ELSE IF fn.kind \in {"minmax", "max"} /\ l > fn.maxV THEN Fail("max")
        ELSE Pass

\* a compiled validFunc: the type it gates and its constraint closures;
\* NoValidFunc is the nil validFunc
ValidFunc(type, funcs) == [nil |-> FALSE, type |-> type, funcs |-> funcs]
NoValidFunc == [nil |-> TRUE, type |-> 0, funcs |-> <<>>]

\* what generateValidFunc returns to main: the validFunc, whether err # nil, a panic
Generated(vf, err) == [panic |-> FALSE, err |-> err, vf |-> vf]
GeneratePanic == [panic |-> TRUE, err |-> FALSE, vf |-> NoValidFunc]

\* lines 235-252: only the "length" entry of the map has an effect
generateStringValidFunc(arg) ==
    IF "length" \notin DOMAIN arg.Restrictions
    THEN Generated(ValidFunc(TypeString, <<>>), FALSE)
    ELSE LET f == generateStringLengthValidFunc(arg.Restrictions["length"])
         IN  CASE f.st = "panic" -> GeneratePanic
               [] f.st = "err" -> Generated(NoValidFunc, TRUE)
               [] f.st = "func" -> Generated(ValidFunc(TypeString, <<f>>), FALSE)
               [] OTHER -> Generated(ValidFunc(TypeString, <<>>), FALSE)

\* lines 254-271: only the "range" entry of the map has an effect
generateIntValidFunc(arg) ==
    IF "range" \notin DOMAIN arg.Restrictions
    THEN Generated(ValidFunc(TypeInt, <<>>), FALSE)
    ELSE LET f == generateIntRangeValidFunc(arg.Restrictions["range"])
         IN  CASE f.st = "panic" -> GeneratePanic
               [] f.st = "err" -> Generated(NoValidFunc, TRUE)
               [] f.st = "func" -> Generated(ValidFunc(TypeInt, <<f>>), FALSE)
               [] OTHER -> Generated(ValidFunc(TypeInt, <<>>), FALSE)

\* lines 273-275
generateBoolValidFunc(arg) == Generated(ValidFunc(TypeBool, <<>>), FALSE)

\* lines 163-175
generateValidFunc(arg) ==
    CASE arg.Type = TypeString -> generateStringValidFunc(arg)
      [] arg.Type = TypeInt -> generateIntValidFunc(arg)
      [] arg.Type = TypeBool -> generateBoolValidFunc(arg)
      [] OTHER -> Generated(NoValidFunc, FALSE)

\* ------------------------------------------------------------ validators
RECURSIVE RunLength(_, _)
RunLength(funcs, s) ==
    IF funcs = <<>> THEN Pass
    ELSE IF LengthCheck(Head(funcs), s).err THEN LengthCheck(Head(funcs), s)
    ELSE RunLength(Tail(funcs), s)

RECURSIVE RunRange(_, _)
RunRange(funcs, i) ==
    IF funcs = <<>> THEN Pass
    ELSE IF BoundCheck(Head(funcs), i).err THEN BoundCheck(Head(funcs), i)
    ELSE RunRange(Tail(funcs), i)

\* lines 182-198
newStringTypeValidFunc(funcs, v) ==
    IF v.t = "null" THEN Pass
    ELSE IF v.t # "string" THEN Fail("not string")
    ELSE RunLength(funcs, v.s)

\* lines 200-220
newIntTypeValidFunc(funcs, v) ==
    IF v.t = "null" THEN Pass
    ELSE IF v.t # "number" THEN Fail("not number")
    ELSE IF Int64(v).err THEN Fail("strconv.ParseInt")
    ELSE RunRange(funcs, Int64(v).i)

\* lines 222-233
newBoolTypeValidFunc_NoTypeCheck(funcs, v) == Pass
newBoolTypeValidFunc(funcs, v) ==
    IF v.t = "null" THEN Pass
    ELSE IF v.t # "bool" THEN Fail("not bool")
    ELSE Pass

\* the call validFunc(v) of line 98
ApplyValidFunc(vf, v) ==
    CASE vf.type = TypeString -> newStringTypeValidFunc(vf.funcs, v)
      [] vf.type = TypeInt -> newIntTypeValidFunc(vf.funcs, v)
      [] OTHER -> newBoolTypeValidFunc(vf.funcs, v)

\* lines 91-109: where the handler puts one declared field, and the counter it increments
FieldOutcome(vf, v) ==
    IF v.t = "absent" THEN [map |-> "invalid", reason |-> "<missed>", counter |-> "missed"]
    ELSE IF ~ vf.nil
         THEN IF ApplyValidFunc(vf, v).err
              THEN [map |-> "invalid", reason |-> ApplyValidFunc(vf, v).reason, counter |-> "invalid"]
              ELSE [map |-> "valid", reason |-> "", counter |-> "valid"]
         ELSE [map |-> "valid", reason |-> "", counter |-> "valid"]

\* ------------------------------------------------------------ request handlers
Code_OK == 0
Code_Err_Request == 10000

EmptyMap == [name \in {} |-> NoKey]
NoRequest == [uri |-> <<>>, method |-> "", len |-> 0, decodable |-> FALSE, body |-> EmptyMap]
Idle ==
    [pc |-> "idle", req |-> NoRequest, ai |-> 0, valid |-> EmptyMap, invalid |-> EmptyMap,
     argIncs |-> 0, reqInc |-> "none"]
NoResponse ==
    [code |-> -1, valid |-> EmptyMap, invalid |-> EmptyMap, req |-> NoRequest,
     argIncs |-> 0, reqInc |-> "none"]

\* lines 40-46: validFuncs[arg.Name], err = generateValidFunc(arg), in the order of args
RECURSIVE BuildValidFuncs(_, _)
BuildValidFuncs(args, validFuncs) ==
    IF args = <<>> THEN validFuncs
    ELSE BuildValidFuncs(Tail(args),
             [name \in DOMAIN validFuncs \cup {Head(args).Name} |->
                 IF name = Head(args).Name THEN generateValidFunc(Head(args)).vf
                 ELSE validFuncs[name]])

\* line 96: validFunc := validFuncs[arg.Name]
ArgValidFunc_OwnCompile(c, arg) == generateValidFunc(arg).vf
ArgValidFunc(c, arg) == c.validFuncs[arg.Name]

\* line 91: v, ok := data[arg.Name]
BodyValue(body, name) == IF name \in DOMAIN body THEN body[name] ELSE NoKey

\* requests that have entered a handler
Received == Sum(nRecv)

HandlerIdle ==
    /\ conf = [method |-> "", args |-> <<>>, validFuncs |-> EmptyMap]
    /\ handler = [p \in Procs |-> Idle]
    /\ resp = [p \in Procs |-> NoResponse]
    /\ nRecv = EmptyTree
    /\ nCode0 = EmptyTree

\* m{...}.Write(w) at lines 68-71, 81-84 and 111-115, and the return of the handler
Respond(p, code) ==
    /\ resp' = [resp EXCEPT ![p] =
                   [code |-> code, valid |-> handler[p].valid, invalid |-> handler[p].invalid,
                    req |-> handler[p].req, argIncs |-> handler[p].argIncs,
                    reqInc |-> handler[p].reqInc]]
    /\ handler' = [handler EXCEPT ![p] = Idle]
    /\ nCode0' = IF code = Code_OK THEN AddTo(nCode0, handler[p].req.uri, 1) ELSE nCode0

\* line 65: a request enters the handler of the endpoint
HandleRequest(p, r) ==
    /\ handler[p].pc = "idle"
    /\ handler' = [handler EXCEPT ![p] = [Idle EXCEPT !.pc = "request", !.req = r]]
    /\ nRecv' = AddTo(nRecv, r.uri, 1)
    /\ IncEnter(p, Sprintf(r.uri, <<"request">>), 1)
    /\ UNCHANGED <<conf, resp, nCode0>>

\* line 66: statistic.Inc("<uri>.total_size", int(r.ContentLength))
HandleSize(p) ==
    /\ handler[p].pc = "request"
    /\ handler' = [handler EXCEPT ![p].pc = "size", ![p].reqInc = res[p]]
    /\ IncEnter(p, Sprintf(handler[p].req.uri, <<"total_size">>), handler[p].req.len)
    /\ UNCHANGED <<conf, resp, nRecv, nCode0>>

\* lines 67-89: the method check and the decoding of the body
HandleDecode(p) ==
    /\ handler[p].pc = "size"
    /\ pc[p] = "idle"
    /\ IF conf.method # handler[p].req.method \/ ~ handler[p].req.decodable
       THEN Respond(p, Code_Err_Request)
       ELSE /\ handler' = [handler EXCEPT ![p].pc = "args"]
            /\ UNCHANGED <<resp, nCode0>>
    /\ UNCHANGED <<conf, nRecv>>
    /\ UNCHANGED statVars

\* lines 90-110: one iteration of the loop over args
HandleArg(p) ==
    /\ handler[p].pc = "args"
    /\ handler[p].ai < Len(conf.args)
    /\ LET arg == conf.args[handler[p].ai + 1]
           v == BodyValue(handler[p].req.body, arg.Name)
           o == FieldOutcome(ArgValidFunc(conf, arg), v)
       IN  /\ handler' = [handler EXCEPT
                  ![p].ai = @ + 1,
                  ![p].argIncs = @ + 1,
                  ![p].valid = IF o.map = "valid"
                               THEN [name \in DOMAIN @ \cup {arg.Name} |->
                                        IF name = arg.Name THEN v ELSE @[name]]
                               ELSE @,
                  ![p].invalid = IF o.map = "invalid"
                                 THEN [name \in DOMAIN @ \cup {arg.Name} |->
                                          IF name = arg.Name THEN o.reason ELSE @[name]]
                                 ELSE @]
           /\ IncEnter(p, Sprintf(handler[p].req.uri, <<"args", Dot, o.counter>>), 1)
    /\ UNCHANGED <<conf, resp, nRecv, nCode0>>

\* lines 111-115: the loop is over
HandleRespond(p) ==
    /\ handler[p].pc = "args"
    /\ pc[p] = "idle"
    /\ handler[p].ai = Len(conf.args)
    /\ Respond(p, Code_OK)
    /\ UNCHANGED <<conf, nRecv>>
    /\ UNCHANGED statVars

StatisticsURI == <<"/statistics">>

\* line 59: a request enters statisticHandler
StatisticRequest(p) ==
    /\ handler[p].pc = "idle"
    /\ handler' = [handler EXCEPT ![p] =
                      [Idle EXCEPT !.pc = "statistics",
                                                      !.req.uri = StatisticsURI]]
    /\ nRecv' = AddTo(nRecv, StatisticsURI, 1)
    /\ IncEnter(p, Sprintf(StatisticsURI, <<"request">>), 1)
    /\ UNCHANGED <<conf, resp, nCode0>>

\* line 60: fmt.Fprint(w, statistic.Json())
StatisticJson(p) ==
    /\ handler[p].pc = "statistics"
    /\ Json(p)
    /\ handler' = [handler EXCEPT ![p] = Idle]
    /\ UNCHANGED <<conf, resp, nRecv, nCode0>>

\* ------------------------------------------------------------ SpecValid: one field
\* main compiles the Arg of one declared field (lines 41-46) and the handler
\* then meets a value for it in each request (lines 91-109).
MaxStrLen == 6
MaxInt == 11

Chars == {"a", "U+00E9"}
Strings == UNION {[1..n -> Chars] : n \in 0..MaxStrLen}

\* "min" and "max" of a restriction: missing, an exact integer, 1.5, an
\* integer beyond int64, or the string "2"
ParamInputs == {NoKey, VInt(0), VInt(2), VInt(5), VInt(10), VFrac(1), VBig(1), VStr(<<"2">>)}
RestrictionInputs ==
    {RNull, ROther} \cup {RMap(mn, mx) : mn \in ParamInputs, mx \in ParamInputs}
RestrictionsInputs ==
    {[name \in {} |-> RNull]}
    \cup {[name \in {"length"} |-> r] : r \in RestrictionInputs}
    \cup {[name \in {"range"} |-> r] : r \in RestrictionInputs}
    \cup {[name \in {"format"} |-> r] : r \in {RNull}}
TypeInputs == {TypeInt, TypeString, TypeBool, 4}
ArgInputs == [Type : TypeInputs, Restrictions : RestrictionsInputs]

\* the values a request body can bind the field to, and NoKey for a missing field
ValueInputs ==
    {NoKey, VNull, VBool(TRUE), VBool(FALSE), VFrac(1), VBig(1), VBig(-1), VObject}
    \cup {VInt(i) : i \in -1..MaxInt}
    \cup {VStr(str) : str \in Strings}

NotGenerated == [panic |-> FALSE, err |-> FALSE, vf |-> NoValidFunc]
NoOutcome == [map |-> "", reason |-> "", counter |-> ""]

ValidIdle ==
    /\ varg = [Type |-> 0, Restrictions |-> [name \in {} |-> RNull]]
    /\ vgen = NotGenerated
    /\ vrun = "startup"
    /\ vval = NoKey
    /\ vout = NoOutcome

ValidInit ==
    /\ varg \in ArgInputs
    /\ vgen = NotGenerated
    /\ vrun = "startup"
    /\ vval = NoKey
    /\ vout = NoOutcome
    /\ StatInit
    /\ HandlerIdle

\* lines 41-47: validFuncs[arg.Name], err = generateValidFunc(arg); a panic ends the process
Compile ==
    /\ vrun = "startup"
    /\ vgen' = generateValidFunc(varg)
    /\ vrun' = IF generateValidFunc(varg).panic THEN "crashed" ELSE "serving"
    /\ UNCHANGED <<varg, vval, vout>>

\* lines 90-110 for the field: a request whose body binds it to v, or misses it
Validate ==
    /\ vrun = "serving"
    /\ vout = NoOutcome
    /\ \E v \in ValueInputs :
          /\ vval' = v
          /\ vout' = FieldOutcome(vgen.vf, v)
    /\ UNCHANGED <<varg, vgen, vrun>>

\* lines 111-116: the response is written and the handler returns
Reply ==
    /\ vrun = "serving"
    /\ vout # NoOutcome
    /\ vval' = NoKey
    /\ vout' = NoOutcome
    /\ UNCHANGED <<varg, vgen, vrun>>

ValidNext ==
    /\ \/ Compile
       \/ Validate
       \/ Reply
    /\ UNCHANGED <<statVars, handlerVars>>

SpecValid == ValidInit /\ [][ValidNext]_vars

\* ------------------------------------------------------------ SpecHandler: one endpoint
\* One configured endpoint whose pattern (such as "/") matches every URI of
\* UriInputs, served by concurrent workers next to /statistics.
MaxReqs == 2

NoRestrictions == [name \in {} |-> RNull]
Length(min, max) == [name \in {"length"} |-> RMap(min, max)]
Range(min, max) == [name \in {"range"} |-> RMap(min, max)]
ArgOf(name, type, restrictions) == [Name |-> name, Type |-> type, Restrictions |-> restrictions]

\* Args of the endpoint: one name declared twice; a field whose compilation
\* failed beside a checked field
ArgsInputs ==
    { <<ArgOf("x", TypeInt, Range(VInt(0), VInt(10))), ArgOf("x", TypeString, NoRestrictions)>>,
      <<ArgOf("x", TypeString, Length(NoKey, VFrac(1))), ArgOf("y", TypeString, Length(VInt(2), VInt(5)))>> }

FooURI == <<"/foo">>
FooArgsValidURI == <<"/foo", Dot, "args", Dot, "valid">>
UriInputs == {FooURI, FooArgsValidURI}
Body(x, y) == [name \in {"x", "y"} |-> IF name = "x" THEN x ELSE y]
Bodies ==
    { Body(VInt(5), NoKey),
      Body(VStr(<<"a", "a">>), VStr(<<"a">>)) }
Request(uri, method, len, decodable, body) ==
    [uri |-> uri, method |-> method, len |-> len, decodable |-> decodable, body |-> body]

\* requests with the configured method and a JSON object as the body, with a
\* body that does not decode, and with another method
RequestInputs ==
    {Request(FooURI, "POST", 2, TRUE, body) : body \in Bodies}
    \cup {Request(FooURI, "POST", -1, FALSE, EmptyMap)}
    \cup {Request(uri, "GET", 0, TRUE, EmptyMap) : uri \in UriInputs}

HandlerInit ==
    /\ StatInit
    /\ ValidIdle
    /\ \E args \in ArgsInputs :
          conf = [method |-> "POST", args |-> args, validFuncs |-> BuildValidFuncs(args, EmptyMap)]
    /\ handler = [p \in Procs |-> Idle]
    /\ resp = [p \in Procs |-> NoResponse]
    /\ nRecv = EmptyTree
    /\ nCode0 = EmptyTree

Serve(p) ==
    /\ Received < MaxReqs
    /\ \E r \in RequestInputs : HandleRequest(p, r)

ServeStatistics(p) ==
    /\ Received < MaxReqs
    /\ StatisticRequest(p)

IncStep(p) ==
    /\ \/ IncLock(p)
       \/ IncLoop(p)
       \/ IncRead(p)
       \/ IncWrite(p)
    /\ UNCHANGED handlerVars

HandlerNext ==
    /\ \E p \in Procs :
          \/ Serve(p)
          \/ HandleSize(p)
          \/ HandleDecode(p)
          \/ HandleArg(p)
          \/ HandleRespond(p)
          \/ ServeStatistics(p)
          \/ StatisticJson(p)
          \/ IncStep(p)
    /\ UNCHANGED validVars

SpecHandler == HandlerInit /\ [][HandlerNext]_vars

\* ------------------------------------------------------------ Spec: callers of the tree
\* Concurrent callers of statistic.Inc and statistic.Json with arbitrary paths.
PathInputs ==
    { <<"a">>,
      <<"a", Dot, "b">>,
      <<"a", Dot, "b", Dot, "c">> }
Deltas == {-1, 0, 1}

Call(p) ==
    /\ Sum(calls) < MaxCalls
    /\ \E path \in PathInputs, delta \in Deltas : IncEnter(p, path, delta)

Init == StatInit /\ ValidIdle /\ HandlerIdle

Next ==
    /\ \E p \in Procs :
          \/ Call(p)
          \/ IncLock(p)
          \/ IncLoop(p)
          \/ IncRead(p)
          \/ IncWrite(p)
          \/ Json(p)
    /\ UNCHANGED <<validVars, handlerVars>>


Spec == Init /\ [][Next]_vars

\* ------------------------------------------------------------ claims on the tree
ABC == <<<<"a">>, <<"b">>, <<"c">>>>
TreeABC(n) ==
    [q \in {SubSeq(ABC, 1, 1), SubSeq(ABC, 1, 2), ABC} |->
        IF q = ABC THEN Leaf(n) ELSE Node]

AllIdle == \A p \in Procs : pc[p] = "idle"

\* C1: no update is lost: every leaf holds the sum of the deltas of the
\* successful Inc calls on its path, every path of a successful Inc is a leaf,
\* and two Inc("a.b.c", 1) calls alone leave the tree {a: {b: {c: 2}}}.
C1_NoLostUpdate ==
    /\ \A q \in DOMAIN data : IsLeaf(data, q) => q \in DOMAIN sumOk /\ data[q].val = sumOk[q]
    /\ \A q \in DOMAIN nOk : IsLeaf(data, q) /\ data[q].val = sumOk[q]
    /\ (/\ AllIdle
        /\ Sum(calls) = 2
        /\ DOMAIN nOk = {ABC}
        /\ nOk[ABC] = 2
        /\ sumOk[ABC] = 2) => data = TreeABC(2)

\* the processes together have made all the calls on "a.b.c" with delta 1
C1_Witness ==
    /\ AllIdle
    /\ \A p \in Procs : calls[p] >= 1
    /\ DOMAIN nOk = {ABC}
    /\ nOk[ABC] = MaxCalls
    /\ sumOk[ABC] = MaxCalls
    /\ data = TreeABC(MaxCalls)

\* an interior segment bound to a leaf, or the final segment bound to a map
Conflict(t, parts) ==
    \/ \E k \in 1..(Len(parts) - 1) : IsLeaf(t, SubSeq(parts, 1, k))
    \/ IsNode(t, parts)

Returns(p) == pc[p] # "idle" /\ pc[p] # "lock" /\ pc'[p] = "idle"

\* C2: an Inc whose path conflicts with the tree it found returns an error,
\* and an Inc that returns an error leaves the tree as it found it.
C2_ConflictRejected ==
    [][\A p \in Procs :
          Returns(p) =>
            /\ Conflict(pre[p].tree, frame[p].parts) <=> res'[p] = "err"
            /\ res'[p] = "err" => /\ data' = pre[p].tree
                                  /\ data' = data
                                  /\ dataNil' = pre[p].nil]_vars

\* a call was rejected by the tree {a: {b: n}}: Inc("a.b.c") or Inc("a")
C2_Witness ==
    /\ nFail >= 1
    /\ \E p \in Procs : res[p] = "err"
    /\ DOMAIN data = {SubSeq(ABC, 1, 1), SubSeq(ABC, 1, 2)}
    /\ IsLeaf(data, SubSeq(ABC, 1, 2))

\* C3: a key keeps its kind and is never removed
C3_KindStable ==
    [][\A q \in DOMAIN data : q \in DOMAIN data' /\ data'[q].kind = data[q].kind]_vars

\* a failed call has met a map and a leaf that a negative delta made
C3_Witness ==
    /\ nFail >= 1
    /\ \E q \in DOMAIN data : IsLeaf(data, q) /\ data[q].val < 0
    /\ \E q \in DOMAIN data : IsNode(data, q)

HasLeafBelow(t, q) ==
    \E x \in DOMAIN t :
        /\ IsLeaf(t, x)
        /\ Len(x) > Len(q)
        /\ SubSeq(x, 1, Len(q)) = q

\* C10: every tree that Json serializes has only non-empty interior nodes,
\* and Json leaves the tree as it is.
C10_SnapshotWhole ==
    /\ [](snap.taken => \A q \in DOMAIN snap.tree : IsNode(snap.tree, q) => HasLeafBelow(snap.tree, q))
    /\ [][snap' # snap => data' = data /\ dataNil' = dataNil]_vars

\* a snapshot with an interior node, taken after a failed Inc
C10_Witness ==
    /\ snap.taken
    /\ nFail >= 1
    /\ \E q \in DOMAIN snap.tree : IsNode(snap.tree, q)

\* ------------------------------------------------------------ claims on one field
Served == vrun = "serving" /\ vout # NoOutcome
Present == vval.t # "absent"

\* a restriction whose "min" or "max" is present but is no exact integer
BadParam(x) == x.t # "absent" /\ ~ (x.t = "number" /\ x.form = "int")
Malformed(r) == r.t = "map" /\ (BadParam(r.min) \/ BadParam(r.max))
WellFormed(r) == r.t = "map" /\ ~ BadParam(r.min) /\ ~ BadParam(r.max)
HasMalformed(arg) ==
    \E name \in DOMAIN arg.Restrictions \cap {"length", "range"} :
        Malformed(arg.Restrictions[name])

\* the JSON type that a declared type accepts
TypeOf(type) ==
    CASE type = TypeString -> "string"
      [] type = TypeInt -> "number"
      [] OTHER -> "bool"

\* C4: a field with a malformed length or range restriction is compiled to a
\* Validator all the same, the process keeps running, and a value of the
\* wrong type is rejected at request time.
C4_MalformedDropsRestriction ==
    (/\ varg.Type \in {TypeInt, TypeString, TypeBool}
     /\ HasMalformed(varg)
     /\ vrun # "startup")
    => /\ vrun = "serving"
       /\ ~ vgen.vf.nil
       /\ (Present /\ vout # NoOutcome /\ vval.t \notin {"null", TypeOf(varg.Type)})
            => vout.map = "invalid"

\* C5 as stated: a present value of a Boolean field is valid exactly when it is a boolean
C5_BoolOnly ==
    (varg.Type = TypeBool /\ Served /\ Present)
    => (vout.map = "valid" <=> vval.t = "bool")

\* C5 as amended: a present value of a Boolean field is valid exactly when it
\* is a boolean or null, every other value is invalid with the reason
\* "not bool", whatever restrictions the field declares.
C5_BoolOrNull ==
    (varg.Type = TypeBool /\ Served /\ Present)
    => /\ vout.map = "valid" <=> vval.t \in {"bool", "null"}
       /\ vout.map = "invalid" <=> vval.t \notin {"bool", "null"}
       /\ vout.map = "invalid" => vout.reason = "not bool"

\* a Boolean field that declares a restriction has rejected a string
C5_Witness ==
    /\ varg.Type = TypeBool
    /\ DOMAIN varg.Restrictions # {}
    /\ Served
    /\ vval = VStr(<<"a">>)
    /\ vout.map = "invalid"
    /\ vout.reason = "not bool"

InBounds(r, n) ==
    /\ r.min.t = "absent" \/ n >= r.min.n
    /\ r.max.t = "absent" \/ n <= r.max.n

\* C6: an integer of an Integer field with a range restriction is valid
\* exactly when it is at least min, if min is present, and at most max, if max
\* is present.
C6_RangeInclusive ==
    (/\ varg.Type = TypeInt
     /\ "range" \in DOMAIN varg.Restrictions
     /\ WellFormed(varg.Restrictions["range"])
     /\ Served
     /\ vval.t = "number" /\ vval.form = "int")
    => (vout.map = "valid" <=> InBounds(varg.Restrictions["range"], vval.n))

\* range {min: 0, max: 10} has accepted 10
C6_Witness ==
    /\ varg.Type = TypeInt
    /\ "range" \in DOMAIN varg.Restrictions
    /\ varg.Restrictions["range"] = RMap(VInt(0), VInt(10))
    /\ Served
    /\ vval = VInt(10)
    /\ vout.map = "valid"

\* C7: a string of a String field with a length restriction is valid exactly
\* when its number of characters is at least min, if min is present, and at
\* most max, if max is present.
C7_LengthInCharacters ==
    (/\ varg.Type = TypeString
     /\ "length" \in DOMAIN varg.Restrictions
     /\ WellFormed(varg.Restrictions["length"])
     /\ Served
     /\ vval.t = "string")
    => (vout.map = "valid" <=> InBounds(varg.Restrictions["length"], Len(vval.s)))

\* ------------------------------------------------------------ claims on the endpoint
DeclaredNames == {conf.args[k].Name : k \in 1..Len(conf.args)}

\* C8: in a response with code 0 every declared field name is a key of exactly
\* one of valid and invalid, and a declared field that the body misses is in
\* invalid with the reason <missed>.
C8_Partition ==
    \A p \in Procs :
        resp[p].code = Code_OK =>
            \A name \in DeclaredNames :
                /\ (name \in DOMAIN resp[p].valid) # (name \in DOMAIN resp[p].invalid)
                /\ BodyValue(resp[p].req.body, name) = NoKey =>
                      /\ name \in DOMAIN resp[p].invalid
                      /\ resp[p].invalid[name] = "<missed>"
                      /\ name \notin DOMAIN resp[p].valid

\* a field with no compiled Validator was answered valid beside a missed field
C8_Witness ==
    \E p \in Procs :
        /\ resp[p].code = Code_OK
        /\ DeclaredNames = {"x", "y"}
        /\ conf.validFuncs["x"].nil
        /\ DOMAIN resp[p].valid = {"x"}
        /\ DOMAIN resp[p].invalid = {"y"}
        /\ resp[p].invalid["y"] = "<missed>"

\* the leaf counter at a position, 0 when there is none
Counter(q) == IF IsLeaf(data, q) THEN data[q].val ELSE 0

DotFree(u) == \A k \in 1..Len(u) : u[k] # Dot
ArgsCounter(u, name) == Counter(<<u, <<"args">>, <<name>>>>)
ArgsSum(u) == ArgsCounter(u, "valid") + ArgsCounter(u, "invalid") + ArgsCounter(u, "missed")
NoneInFlight == \A p \in Procs : handler[p].pc = "idle"

Consistent(u) ==
    /\ ArgsSum(u) <= Len(conf.args) * Counter(<<u, <<"request">>>>)
    /\ \A p \in Procs :
          (resp[p].code = Code_Err_Request /\ resp[p].req.uri = u)
          => resp[p].reqInc = "ok" /\ resp[p].argIncs = 0
    /\ NoneInFlight => ArgsSum(u) = Len(conf.args) * Count(nCode0, u)

\* C9 as stated: for every dot-free URI of the endpoint the args counters sum
\* to at most fields * u.request, a rejected request has incremented u.request
\* and no args counter, and with no request in flight the sum is fields * the
\* number of code 0 responses.
C9_CountersConsistent ==
    \A u \in UriInputs : DotFree(u) => Consistent(u)

\* a request was received whose URI is u followed by "." and more
Shadowed(u) ==
    \E u2 \in DOMAIN nRecv : u2 # u /\ Head(Split(u2)) = u

\* C9 as amended: the same, for as long as no request has been received whose
\* URI starts with u followed by ".".
C9_ConsistentUnshadowed ==
    \A u \in UriInputs : (DotFree(u) /\ ~ Shadowed(u)) => Consistent(u)

\* two requests to /foo were answered, one with code 0 and one rejected, and
\* the counters add up
C9_Witness ==
    /\ NoneInFlight
    /\ ~ Shadowed(FooURI)
    /\ Count(nRecv, FooURI) = 2
    /\ Count(nCode0, FooURI) = 1
    /\ \E p \in Procs : resp[p].code = Code_Err_Request
    /\ Counter(<<FooURI, <<"request">>>>) = 2
    /\ ArgsSum(FooURI) = 2
    /\ ArgsCounter(FooURI, "missed") = 1

====
